---- MODULE Spec2Model ----
(***************************************************************************)
(* A model of pifkoin's block-header primitives (python/blockchain.py):   *)
(* the compact-number conversions, the decimal precision scope, the       *)
(* BlockHeader object with its 80-byte serialization, calculate_hash and  *)
(* the midstate-caching nonce search find_nonces, over the round-level    *)
(* SHA256 interface of pifkoin.sha256.                                     *)
(*                                                                         *)
(* Representation.  TLC's integers are 32-bit signed, so:                  *)
(*   - a byte string is a sequence of 0..255;                              *)
(*   - a Python long that may exceed 31 bits (a target, a hash read as a   *)
(*     number) is its big-endian base-256 digit sequence without leading   *)
(*     zeros (0 is << >>);                                                 *)
(*   - a 32-bit SHA256 word is a pair <<hi, lo>> of 16-bit halves;         *)
(*   - the header's 32-bit integer fields (version, time, nonce) are       *)
(*     naturals below 2^31, the part of their range TLC can hold.          *)
(* The host is little-endian (socket.htonl swaps the four bytes).          *)
(***************************************************************************)
EXTENDS Integers, Sequences, FiniteSets, TLC

VARIABLES
  header,   \* the BlockHeader object under test: << >> or <<object>>
  prec,     \* the precision of the thread's decimal context
  made,     \* how the object was created, and from what
  call,     \* the last call: its name, its argument, the state it started in
  ret,      \* the outcome of the last call
  gen,      \* the find_nonces generator, if one was created
  other,    \* a second find_nonces generator over the same header
  hashed    \* whether the last call ran any SHA256 code

-----------------------------------------------------------------------------
(* Byte strings *)

\* s[::-1]
Reverse(s) == [i \in 1..Len(s) |-> s[Len(s) + 1 - i]]

\* s[a:b] with Python's 0-based half-open slice, clipped to the string
Slice(s, a, b) ==
  LET hi == IF b < Len(s) THEN b ELSE Len(s)
  IN  IF a >= hi THEN << >> ELSE [i \in 1..(hi - a) |-> s[a + i]]

\* b'\x00' * n
Zeros(n) == [i \in 1..n |-> 0]

-----------------------------------------------------------------------------
(* 32-bit words as <<hi, lo>> and the bitwise operations of SHA256 *)

RECURSIVE BitXor(_, _, _)
BitXor(a, b, n) ==
  IF n = 0 THEN 0
  ELSE ((a + b) % 2) + 2 * BitXor(a \div 2, b \div 2, n - 1)

RECURSIVE BitAnd(_, _, _)
BitAnd(a, b, n) ==
  IF n = 0 THEN 0
  ELSE ((a % 2) * (b % 2)) + 2 * BitAnd(a \div 2, b \div 2, n - 1)

\* byte-wide tables, built once
XorTab == [a \in 0..255 |-> [b \in 0..255 |-> BitXor(a, b, 8)]]
AndTab == [a \in 0..255 |-> [b \in 0..255 |-> BitAnd(a, b, 8)]]

Xor16(a, b) == XorTab[a \div 256][b \div 256] * 256 + XorTab[a % 256][b % 256]
And16(a, b) == AndTab[a \div 256][b \div 256] * 256 + AndTab[a % 256][b % 256]

\* x ^ y, x & y, ~x (within 32 bits)
_xor(x, y) == <<Xor16(x[1], y[1]), Xor16(x[2], y[2])>>
_and(x, y) == <<And16(x[1], y[1]), And16(x[2], y[2])>>
_invert(x) == <<65535 - x[1], 65535 - x[2]>>

\* sum(args) & 0xffffffff
RECURSIVE SumHalf(_, _)
SumHalf(args, h) ==
  IF args = << >> THEN 0 ELSE Head(args)[h] + SumHalf(Tail(args), h)

_sum_mod32(args) ==
  LET lo == SumHalf(args, 2)
      hi == SumHalf(args, 1) + (lo \div 65536)
  IN  <<hi % 65536, lo % 65536>>

Pow2(n) == 2 ^ n

\* x >> n for 0 < n < 16
_shr(x, n) ==
  << x[1] \div Pow2(n),
     (x[2] \div Pow2(n)) + (x[1] % Pow2(n)) * Pow2(16 - n) >>

\* rotr(x, n): the 32-bit right rotation
RotSmall(x, n) ==
  IF n = 0 THEN x
  ELSE << (x[1] \div Pow2(n)) + (x[2] % Pow2(n)) * Pow2(16 - n),
          (x[2] \div Pow2(n)) + (x[1] % Pow2(n)) * Pow2(16 - n) >>

_rrot(x, n) == IF n < 16 THEN RotSmall(x, n) ELSE RotSmall(<<x[2], x[1]>>, n - 16)

_ch(x, y, z)  == _xor(_and(x, y), _and(_invert(x), z))
_maj(x, y, z) == _xor(_and(x, y), _xor(_and(x, z), _and(y, z)))
_S0(x) == _xor(_rrot(x, 2), _xor(_rrot(x, 13), _rrot(x, 22)))
_S1(x) == _xor(_rrot(x, 6), _xor(_rrot(x, 11), _rrot(x, 25)))
_s0(x) == _xor(_rrot(x, 7), _xor(_rrot(x, 18), _shr(x, 3)))
_s1(x) == _xor(_rrot(x, 17), _xor(_rrot(x, 19), _shr(x, 10)))

INITIAL_STATE ==
  << <<\h6a09, \he667>>, <<\hbb67, \hae85>>, <<\h3c6e, \hf372>>, <<\ha54f, \hf53a>>,
     <<\h510e, \h527f>>, <<\h9b05, \h688c>>, <<\h1f83, \hd9ab>>, <<\h5be0, \hcd19>> >>

K ==
  << <<\h428a, \h2f98>>, <<\h7137, \h4491>>, <<\hb5c0, \hfbcf>>, <<\he9b5, \hdba5>>,
     <<\h3956, \hc25b>>, <<\h59f1, \h11f1>>, <<\h923f, \h82a4>>, <<\hab1c, \h5ed5>>,
     <<\hd807, \haa98>>, <<\h1283, \h5b01>>, <<\h2431, \h85be>>, <<\h550c, \h7dc3>>,
     <<\h72be, \h5d74>>, <<\h80de, \hb1fe>>, <<\h9bdc, \h06a7>>, <<\hc19b, \hf174>>,
     <<\he49b, \h69c1>>, <<\hefbe, \h4786>>, <<\h0fc1, \h9dc6>>, <<\h240c, \ha1cc>>,
     <<\h2de9, \h2c6f>>, <<\h4a74, \h84aa>>, <<\h5cb0, \ha9dc>>, <<\h76f9, \h88da>>,
     <<\h983e, \h5152>>, <<\ha831, \hc66d>>, <<\hb003, \h27c8>>, <<\hbf59, \h7fc7>>,
     <<\hc6e0, \h0bf3>>, <<\hd5a7, \h9147>>, <<\h06ca, \h6351>>, <<\h1429, \h2967>>,
     <<\h27b7, \h0a85>>, <<\h2e1b, \h2138>>, <<\h4d2c, \h6dfc>>, <<\h5338, \h0d13>>,
     <<\h650a, \h7354>>, <<\h766a, \h0abb>>, <<\h81c2, \hc92e>>, <<\h9272, \h2c85>>,
     <<\ha2bf, \he8a1>>, <<\ha81a, \h664b>>, <<\hc24b, \h8b70>>, <<\hc76c, \h51a3>>,
     <<\hd192, \he819>>, <<\hd699, \h0624>>, <<\hf40e, \h3585>>, <<\h106a, \ha070>>,
     <<\h19a4, \hc116>>, <<\h1e37, \h6c08>>, <<\h2748, \h774c>>, <<\h34b0, \hbcb5>>,
     <<\h391c, \h0cb3>>, <<\h4ed8, \haa4a>>, <<\h5b9c, \hca4f>>, <<\h682e, \h6ff3>>,
     <<\h748f, \h82ee>>, <<\h78a5, \h636f>>, <<\h84c8, \h7814>>, <<\h8cc7, \h0208>>,
     <<\h90be, \hfffa>>, <<\ha450, \h6ceb>>, <<\hbef9, \ha3f7>>, <<\hc671, \h78f2>> >>

-----------------------------------------------------------------------------
(* The SHA256 stages: one round, the message schedule, finalization, one   *)
(* block, and the whole-message digest                                     *)

\* one compression round; round_number is absolute, the constant is K[round_number % 64]
_round(round_number, w, prev) ==
  LET Out(t1, t2) ==
        << _sum_mod32(<<t1, t2>>), prev[1], prev[2], prev[3],
           _sum_mod32(<<prev[4], t1>>), prev[5], prev[6], prev[7] >>
  IN  Out(_sum_mod32(<<prev[8], _S1(prev[5]), _ch(prev[5], prev[6], prev[7]),
                       K[(round_number % 64) + 1], w>>),
          _sum_mod32(<<_S0(prev[1]), _maj(prev[1], prev[2], prev[3])>>))

\* SHA256._round(w, k, prev) as sha256.py defines it. The values it adds up
\* without masking (t1, t2, and the bits x << (32 - n) leaves above bit 31 in
\* _rrot) reach the result only through _sum_mod32, whose & 0xffffffff keeps
\* the low 32 bits, so each is carried here as its low 32 bits.
SHA256_round(w, k, prev) ==
  LET State(t1, t2) ==
        << _sum_mod32(<<t1, t2>>), prev[1], prev[2], prev[3],
           _sum_mod32(<<prev[4], t1>>), prev[5], prev[6], prev[7] >>
  IN  State(_sum_mod32(<<prev[8], _S1(prev[5]), _ch(prev[5], prev[6], prev[7]), k, w>>),
            _sum_mod32(<<_S0(prev[1]), _maj(prev[2], prev[3], prev[4])>>))

\* rounds first..last-1 (absolute numbers offset + i) over the schedule w,
\* in order: the rounds of the first half of the range, then, on the state
\* they leave, the rounds of the second half
RECURSIVE Rounds(_, _, _, _, _)
Rounds(offset, w, state, first, last) ==
  IF first >= last THEN state
  ELSE IF last = first + 1 THEN _round(offset + first, w[first + 1], state)
  ELSE LET mid  == (first + last) \div 2
           half == Rounds(offset, w, state, first, mid)
       IN  IF Len(half) = 8
           THEN Rounds(offset, w, half, mid, last)
           ELSE half

\* the message schedule: w[i] appended for i = from..to-1, in order (the
\* first half of the range, then the second half on what it leaves)
RECURSIVE ExpandFrom(_, _, _)
ExpandFrom(w, from, to) ==
  IF from >= to THEN w
  ELSE IF to = from + 1
    THEN Append(w, _sum_mod32(<<w[from - 16 + 1], _s0(w[from - 15 + 1]),
                                w[from - 7 + 1], _s1(w[from - 2 + 1])>>))
  ELSE LET mid  == (from + to) \div 2
           half == ExpandFrom(w, from, mid)
       IN  IF Len(half) = mid THEN ExpandFrom(half, mid, to) ELSE half

\* 16 words in, 64 words out
_expand_message(message) == ExpandFrom(message, 16, 64)

\* adds base into each lane mod 2^32
_finalize(state, base) == [i \in 1..8 |-> _sum_mod32(<<state[i], base[i]>>)]

\* big-endian 32-bit words of a byte string whose length is a multiple of 4
WordsOf(b) ==
  [i \in 1..(Len(b) \div 4) |->
     << b[4 * i - 3] * 256 + b[4 * i - 2], b[4 * i - 1] * 256 + b[4 * i] >>]

\* struct.pack('>LLLLLLLL', *state)
BytesOfState(state) ==
  [i \in 1..32 |->
     LET wd == state[((i - 1) \div 4) + 1]
         j  == (i - 1) % 4
     IN  IF j = 0 THEN wd[1] \div 256
         ELSE IF j = 1 THEN wd[1] % 256
         ELSE IF j = 2 THEN wd[2] \div 256
         ELSE wd[2] % 256]

\* the 64 rounds over the schedule w and the final addition; the schedule
\* and the chaining value are computed before the rounds start
CompressWords(w, state, offset) ==
  IF Len(w) = 64 /\ Len(state) = 8
  THEN _finalize(Rounds(offset, w, state, 0, 64), state)
  ELSE state

\* one 64-byte block compressed into the chaining value state
CompressBlock(block, state, offset) ==
  CompressWords(_expand_message(WordsOf(block)), state, offset)

_process_block(block) == CompressBlock(block, INITIAL_STATE, 0)

\* the FIPS 180 padding of a message shorter than 8192 bytes
PadMessage(msg) ==
  LET n    == Len(msg)
      fill == (119 - (n % 64)) % 64
      bits == n * 8
  IN  msg \o <<128>> \o Zeros(fill) \o Zeros(6) \o <<bits \div 256, bits % 256>>

RECURSIVE DigestBlocks(_, _)
DigestBlocks(padded, state) ==
  IF padded = << >> THEN state
  ELSE DigestBlocks(Slice(padded, 64, Len(padded)),
                    CompressBlock(Slice(padded, 0, 64), state, 0))

\* sha256(msg).digest()
sha256_digest(msg) == BytesOfState(DigestBlocks(PadMessage(msg), INITIAL_STATE))

\* sha256(sha256(msg).digest()).digest()
double_sha256(msg) == sha256_digest(sha256_digest(msg))

-----------------------------------------------------------------------------
(* Python values: a type tag and a payload that is always a sequence of    *)
(* numbers (the bytes of a string, the one number of an int or a datetime) *)

None         == [t |-> "NoneType",  v |-> << >>]
PyInt(n)     == [t |-> "int",       v |-> <<n>>]
PyStr(b)     == [t |-> "str",       v |-> b]
PyByteArr(b) == [t |-> "bytearray", v |-> b]
\* a naive local datetime, held as its wall-clock seconds
PyDatetime(w) == [t |-> "datetime", v |-> <<w>>]

\* Python's truth value of an object
Truthy(x) ==
  IF x.t = "NoneType" THEN FALSE
  ELSE IF x.t = "int" THEN x.v[1] # 0
  ELSE IF x.t = "datetime" THEN TRUE
  ELSE Len(x.v) > 0

\* the outcome of a call: a returned value or a raised exception
Returned(val) == [ok |-> TRUE,  val |-> val,  exc |-> ""]
Raised(exc)   == [ok |-> FALSE, val |-> << >>, exc |-> exc]

-----------------------------------------------------------------------------
(* Python longs as big-endian base-256 digit sequences *)

\* the digits of s from its first nonzero digit on
LongNorm(s) ==
  IF \A i \in 1..Len(s) : s[i] = 0 THEN << >>
  ELSE SubSeq(s, CHOOSE i \in 1..Len(s) :
                   s[i] # 0 /\ \A j \in 1..(i - 1) : s[j] = 0, Len(s))

\* divmod(n, d) for a small positive d: schoolbook long division
RECURSIVE LongDivStep(_, _, _, _)
LongDivStep(n, d, i, acc) ==
  IF i > Len(n) \/ acc.r < 0 THEN acc
  ELSE LET cur == acc.r * 256 + n[i]
       IN  LongDivStep(n, d, i + 1,
                       [q |-> Append(acc.q, cur \div d), r |-> cur % d])

LongDivMod(n, d) ==
  LET Norm(res) == [q |-> LongNorm(res.q), r |-> res.r]
  IN  Norm(LongDivStep(n, d, 1, [q |-> << >>, r |-> 0]))

\* n * 256^k
LongShift(n, k) == IF n = << >> THEN << >> ELSE n \o Zeros(k)

\* a < b for digit strings of one length: decided by the first digit that differs
LexLess(a, b) ==
  \E i \in 1..Len(a) : a[i] < b[i] /\ \A j \in 1..(i - 1) : a[j] = b[j]

\* a < b
LongLess(a, b) ==
  IF Len(a) # Len(b) THEN Len(a) < Len(b) ELSE LexLess(a, b)

\* long(binascii.hexlify(value), 16): the big-endian value of a byte string
bytes_to_long(value) == LongNorm(value)

-----------------------------------------------------------------------------
(* The compact representation *)

\* A number handed to compact: a long, or a Decimal with integer part ip
\* and frac telling whether its fractional part is nonzero.
Number(ip, frac) == [ip |-> ip, frac |-> frac]

\* the while loop of compact: number, byte = divmod(long(number), 256)
RECURSIVE Base256Loop(_, _)
Base256Loop(number, base256) ==
  IF number = << >> THEN base256
  ELSE LET Step(qr) ==
             LET longer == <<qr.r>> \o base256
             IN  IF Len(longer) > 0 THEN Base256Loop(qr.q, longer) ELSE longer
       IN  Step(LongDivMod(number, 256))

\* base256[:3] after the zero-padding loop
PadTo3(base256) ==
  IF Len(base256) < 3 THEN base256 \o Zeros(3 - Len(base256)) ELSE base256

\* compact without the zero byte that keeps the mantissa's high bit clear
compact_unsigned(number) ==
  LET digits == IF number.ip = << >>
                THEN (IF number.frac THEN <<0>> ELSE << >>)
                ELSE Base256Loop(number.ip, << >>)
  IN  IF digits = << >> THEN Raised("IndexError")
      ELSE LET length == Len(digits)
           IN  IF length > 255 THEN Raised("ValueError")
               ELSE Returned(PyByteArr(<<length>> \o Slice(PadTo3(digits), 0, 3)))

compact(number) ==
  LET Encode(digits) ==
        IF digits = << >> THEN Raised("IndexError")
        ELSE LET base256 == IF digits[1] > 127 THEN <<0>> \o digits ELSE digits
                 length  == Len(base256)
             IN  IF length > 255 THEN Raised("ValueError")
                 ELSE Returned(PyByteArr(<<length>> \o Slice(PadTo3(base256), 0, 3)))
  IN  Encode(IF number.ip = << >>
             THEN (IF number.frac THEN <<0>> ELSE << >>)
             ELSE Base256Loop(number.ip, << >>))

\* uncompact that forgets to pad the mantissa out to the length byte
uncompact_unpadded(value) ==
  IF value.t \notin {"str", "bytearray"} THEN Raised("TypeError")
  ELSE IF value.v = << >> THEN Raised("IndexError")
  ELSE IF Tail(value.v) = << >> THEN Raised("ValueError")
  ELSE Returned(bytes_to_long(Tail(value.v)))

uncompact(value) ==
  IF value.t \notin {"str", "bytearray"} THEN Raised("TypeError")
  ELSE IF value.v = << >> THEN Raised("IndexError")
  ELSE LET length == value.v[1]
           rest   == Tail(value.v)
           padded == IF Len(rest) < length
                     THEN rest \o Zeros(length - Len(rest))
                     ELSE rest
       IN  IF padded = << >> THEN Raised("ValueError")
           ELSE Returned(bytes_to_long(padded))

MAX_TARGET == uncompact(PyStr(<<\h1d, \h00, \hff, \hff>>)).val

-----------------------------------------------------------------------------
(* The decimal precision scope and the difficulty conversions *)

\* len(str(2 ** 256))
Digits == 78

\* enough_decimal_precision up to its yield: the precision in effect inside
EnterPrecision(p) == IF p < Digits THEN Digits ELSE p

\* The precision in effect after a with-block whose body ended normally
\* (bodyOk) or raised: the statement after the yield runs only when the
\* generator is resumed normally.
ExitPrecision(orig, inside, bodyOk) == IF bodyOk THEN orig ELSE inside

\* A difficulty is num / 256^shift (num = 0 is a zero difficulty).
Difficulty(num, shift) == [num |-> num, shift |-> shift]

\* decimal.Decimal(MAX_TARGET) / decimal.Decimal(difficulty)
DecimalDivMaxTarget(difficulty) ==
  IF difficulty.num = 0 THEN Raised("DivisionByZero")
  ELSE LET Quotient(qr) == Returned(Number(qr.q, qr.r # 0))
       IN  Quotient(LongDivMod(LongShift(MAX_TARGET, difficulty.shift), difficulty.num))

\* Each conversion returns [res |-> outcome, prec |-> the precision afterwards].
bits_to_difficulty(bits, p) ==
  LET inside == EnterPrecision(p)
      target == uncompact(bits)
      body   == IF ~target.ok THEN target
                ELSE IF target.val = << >> THEN Raised("DivisionByZero")
                ELSE Returned([num |-> MAX_TARGET, den |-> target.val])
  IN  [res |-> body, prec |-> ExitPrecision(p, inside, body.ok)]

difficulty_to_bits(difficulty, p) ==
  LET Body(quotient) == IF ~quotient.ok THEN quotient ELSE compact(quotient.val)
      Exit(inside, body) == [res |-> body, prec |-> ExitPrecision(p, inside, body.ok)]
  IN  Exit(EnterPrecision(p), Body(DecimalDivMaxTarget(difficulty)))

difficulty_to_target(difficulty, p) ==
  LET Target(bits) ==
        [res |-> IF bits.res.ok THEN uncompact(bits.res.val) ELSE bits.res,
         prec |-> bits.prec]
  IN  Target(difficulty_to_bits(difficulty, p))

-----------------------------------------------------------------------------
(* struct, time and binascii as the header code uses them *)

\* struct.unpack('<L', b)[0]
Unpack_L(b) ==
  IF Len(b) # 4 THEN Raised("struct.error")
  ELSE Returned(b[1] + 256 * b[2] + 65536 * b[3] + 16777216 * b[4])

\* struct.pack('<L', x) for a Python object x
Pack_L(x) ==
  IF x.t # "int" \/ x.v[1] < 0 THEN Raised("struct.error")
  ELSE LET n == x.v[1]
       IN  Returned(<<n % 256, (n \div 256) % 256, (n \div 65536) % 256,
                      (n \div 16777216) % 256>>)

\* The local time zone's offset from UTC, in seconds.
UtcOffset == 3600

\* datetime.datetime.fromtimestamp(t)
fromtimestamp(t) == PyDatetime(t + UtcOffset)

\* time.mktime(x.timetuple()) for a Python object x
mktime_timetuple(x) ==
  IF x.t # "datetime" THEN Raised("AttributeError")
  ELSE Returned(x.v[1] - UtcOffset)

\* A hexadecimal string is held as the sequence of its digit values.
unhexlify(hex) ==
  IF Len(hex) % 2 # 0 THEN Raised("TypeError")
  ELSE Returned([i \in 1..(Len(hex) \div 2) |-> hex[2 * i - 1] * 16 + hex[2 * i]])

PyHex(digits) == [t |-> "unicode", v |-> digits]

-----------------------------------------------------------------------------
(* BlockHeader *)

PARAMETERS ==
  <<"height", "version", "previousblockhash", "merkleroot", "time", "bits",
    "nonce", "hash">>

\* the length test accepting anything up to 32 bytes
NoneOr32_at_most(x) == x.t = "NoneType" \/ (x.t \in {"str", "bytearray"} /\ Len(x.v) <= 32)

\* x is None or len(x) == 32
NoneOr32(x) == x.t = "NoneType" \/ (x.t \in {"str", "bytearray"} /\ Len(x.v) = 32)

\* A difficulty argument: absent (None), or a Difficulty.
NoDifficulty      == [given |-> FALSE, d |-> Difficulty(0, 0)]
SomeDifficulty(d) == [given |-> TRUE, d |-> d]
DifficultyTruthy(a) == a.given /\ a.d.num # 0

\* BlockHeader(**args) under decimal precision p:
\* [res |-> the new object or the exception, prec |-> the precision afterwards]
BlockHeader_init(args, p) ==
  LET Built(time, viaDifficulty, conv) ==
        IF ~NoneOr32(args.previousblockhash) \/ ~NoneOr32(args.merkleroot)
          THEN [res |-> Raised("AssertionError"), prec |-> p]
        ELSE IF Truthy(args.bits) /\ DifficultyTruthy(args.difficulty)
          THEN [res |-> Raised("AssertionError"), prec |-> p]
        ELSE IF viaDifficulty /\ ~conv.res.ok
          THEN [res |-> conv.res, prec |-> conv.prec]
        ELSE IF ~NoneOr32(args.hash)
          THEN [res |-> Raised("AssertionError"),
                prec |-> IF viaDifficulty THEN conv.prec ELSE p]
        ELSE [res |-> Returned(
                        [height |-> args.height, version |-> args.version,
                         previousblockhash |-> args.previousblockhash,
                         merkleroot |-> args.merkleroot, time |-> time,
                         bits |-> IF Truthy(args.bits) THEN args.bits
                                  ELSE IF viaDifficulty THEN conv.res.val
                                  ELSE None,
                         nonce |-> args.nonce, hash |-> args.hash]),
              prec |-> IF viaDifficulty THEN conv.prec ELSE p]
  IN  Built(IF Truthy(args.time) /\ args.time.t # "datetime"
            THEN fromtimestamp(args.time.v[1])
            ELSE args.time,
            ~Truthy(args.bits) /\ DifficultyTruthy(args.difficulty),
            difficulty_to_bits(args.difficulty.d, p))

\* the constructor's defaults
DefaultArgs ==
  [height |-> None, version |-> PyInt(1), previousblockhash |-> None,
   merkleroot |-> None, time |-> None, bits |-> None,
   difficulty |-> NoDifficulty, nonce |-> None, hash |-> None]

\* BlockHeader.from_bytes(data)
from_bytes(data, p) ==
  LET version == Unpack_L(Slice(data, 0, 4))
      time    == Unpack_L(Slice(data, 68, 72))
      nonce   == Unpack_L(Slice(data, 76, 80))
  IN  IF ~version.ok \/ ~time.ok \/ ~nonce.ok
      THEN [res |-> Raised("struct.error"), prec |-> p]
      ELSE BlockHeader_init(
             [DefaultArgs EXCEPT
                !.version = PyInt(version.val),
                !.previousblockhash = PyStr(Reverse(Slice(data, 4, 36))),
                !.merkleroot = PyStr(Reverse(Slice(data, 36, 68))),
                !.time = PyInt(time.val),
                !.bits = PyStr(Reverse(Slice(data, 72, 76))),
                !.nonce = PyInt(nonce.val)],
             p)

\* BlockHeader._cond_unhexlify(value)
_cond_unhexlify(value) ==
  IF value.t = "unicode"
  THEN LET b == unhexlify(value.v)
       IN  IF b.ok THEN Returned(PyStr(b.val)) ELSE b
  ELSE Returned(value)

\* A dictionary is a function from some keys to Python values.
\* BlockHeader.from_dict(d): the keys named in PARAMETERS, un-hexlified.
from_dict(d, p) ==
  LET keys == {PARAMETERS[i] : i \in 1..Len(PARAMETERS)} \cap DOMAIN d
      conv == [k \in keys |-> _cond_unhexlify(d[k])]
  IN  IF \E k \in keys : ~conv[k].ok
      THEN [res |-> Raised("TypeError"), prec |-> p]
      ELSE BlockHeader_init(
             [k \in DOMAIN DefaultArgs |->
                IF k \in keys THEN conv[k].val ELSE DefaultArgs[k]],
             p)

\* the bytes property packing an unset nonce as 0
HeaderBytes_unset_nonce_as_zero(self) ==
  LET version == Pack_L(self.version)
      secs    == mktime_timetuple(self.time)
      time    == IF secs.ok THEN Pack_L(PyInt(secs.val)) ELSE secs
      nonce   == IF self.nonce.t = "NoneType" THEN Pack_L(PyInt(0))
                 ELSE Pack_L(self.nonce)
      sliceable(x) == x.t \in {"str", "bytearray"}
  IN  IF ~version.ok THEN version
      ELSE IF ~sliceable(self.previousblockhash) THEN Raised("TypeError")
      ELSE IF ~sliceable(self.merkleroot) THEN Raised("TypeError")
      ELSE IF ~time.ok THEN time
      ELSE IF ~sliceable(self.bits) THEN Raised("TypeError")
      ELSE IF ~nonce.ok THEN nonce
      ELSE IF \E x \in {self.previousblockhash, self.merkleroot, self.bits} :
                x.t # "str"
        THEN Raised("TypeError")
      ELSE Returned(version.val \o Reverse(self.previousblockhash.v)
                    \o Reverse(self.merkleroot.v) \o time.val
                    \o Reverse(self.bits.v) \o nonce.val)

\* the bytes property of the header self
HeaderBytes(self) ==
  LET version == Pack_L(self.version)
      secs    == mktime_timetuple(self.time)
      time    == IF secs.ok THEN Pack_L(PyInt(secs.val)) ELSE secs
      nonce   == Pack_L(self.nonce)
      sliceable(x) == x.t \in {"str", "bytearray"}
  IN  IF ~version.ok THEN version
      ELSE IF ~sliceable(self.previousblockhash) THEN Raised("TypeError")
      ELSE IF ~sliceable(self.merkleroot) THEN Raised("TypeError")
      ELSE IF ~time.ok THEN time
      ELSE IF ~sliceable(self.bits) THEN Raised("TypeError")
      ELSE IF ~nonce.ok THEN nonce
      \* b''.join() accepts only strings
      ELSE IF \E x \in {self.previousblockhash, self.merkleroot, self.bits} :
                x.t # "str"
        THEN Raised("TypeError")
      ELSE Returned(version.val \o Reverse(self.previousblockhash.v)
                    \o Reverse(self.merkleroot.v) \o time.val
                    \o Reverse(self.bits.v) \o nonce.val)

\* the assertion that opens calculate_hash
AllDefined(self) ==
  /\ Truthy(self.version)
  /\ Truthy(self.previousblockhash)
  /\ Truthy(self.merkleroot)
  /\ Truthy(self.time)
  /\ Truthy(self.bits)
  /\ self.nonce.t # "NoneType"

\* calculate_hash storing the new hash before it is compared with the target
calculate_hash_stores_first(self) ==
  LET data   == HeaderBytes(self)
      h      == Reverse(double_sha256(data.val))
      target == uncompact(self.bits)
      stored == [self EXCEPT !.hash = PyStr(h)]
  IN  IF ~AllDefined(self)
        THEN [res |-> Raised("AssertionError"), self |-> self, hashed |-> FALSE]
      ELSE IF ~data.ok THEN [res |-> data, self |-> self, hashed |-> FALSE]
      ELSE IF ~target.ok THEN [res |-> target, self |-> stored, hashed |-> TRUE]
      ELSE IF LongLess(target.val, bytes_to_long(h))
        THEN [res |-> Raised("ValueError"), self |-> stored, hashed |-> TRUE]
      ELSE [res |-> Returned(PyStr(h)), self |-> stored, hashed |-> TRUE]

\* self.calculate_hash() with the default sha_impl (hashlib.sha256):
\* [res |-> the returned hash or the exception, self |-> the object
\*  afterwards, hashed |-> sha_impl was called]
calculate_hash(self) ==
  LET Compared(h, target) ==
        IF ~target.ok THEN [res |-> target, self |-> self, hashed |-> TRUE]
        ELSE IF LongLess(target.val, bytes_to_long(h))
          THEN [res |-> Raised("ValueError"), self |-> self, hashed |-> TRUE]
        ELSE [res |-> Returned(PyStr(h)), self |-> [self EXCEPT !.hash = PyStr(h)],
              hashed |-> TRUE]
      Hash(data) ==
        IF ~data.ok THEN [res |-> data, self |-> self, hashed |-> FALSE]
        ELSE Compared(Reverse(double_sha256(data.val)), uncompact(self.bits))
  IN  IF ~AllDefined(self)
        THEN [res |-> Raised("AssertionError"), self |-> self, hashed |-> FALSE]
      ELSE Hash(HeaderBytes(self))

-----------------------------------------------------------------------------
(* find_nonces: the generator's prologue, the work on one nonce, and a pull *)

\* the nonce written into the message without the byte swap
htonl_unswapped(x) == <<x \div 65536, x % 65536>>

\* socket.htonl(x) for 0 <= x < 2^31, as a 32-bit word: the host is
\* little-endian, so the four bytes are swapped
htonl(x) ==
  << (x % 256) * 256 + ((x \div 256) % 256),
     ((x \div 65536) % 256) * 256 + ((x \div 16777216) % 256) >>

\* struct.unpack('<L', b)[0] as a 32-bit word
Unpack_L_Word(b) ==
  IF Len(b) # 4 THEN Raised("struct.error")
  ELSE Returned(<<b[4] * 256 + b[3], b[2] * 256 + b[1]>>)

Word(n) == <<0, n>>

\* the assertion that opens find_nonces
AllDefinedForSearch(self) ==
  /\ Truthy(self.version)
  /\ Truthy(self.previousblockhash)
  /\ Truthy(self.merkleroot)
  /\ Truthy(self.time)
  /\ Truthy(self.bits)

\* the rounds of a search with round numbers relative to their block
SearchRounds_block_relative ==
  [cached  |-> [offset |-> 0, first |-> 0,  last |-> 3],
   block_b |-> [offset |-> 0, first |-> 3,  last |-> 64],
   second  |-> [offset |-> 0, first |-> 0,  last |-> 61],
   closing |-> [offset |-> 0, first |-> 61, last |-> 64]]

\* The four loops of find_nonces that run rounds, each
\* "for i in xrange(first, last): _round(offset + i, w[i], state)": the
\* nonce-invariant rounds of block B (cached), the rest of block B for one
\* nonce, the second hash up to the early exit, and its closing rounds.
SearchRounds ==
  [cached  |-> [offset |-> 64,  first |-> 0,  last |-> 3],
   block_b |-> [offset |-> 64,  first |-> 3,  last |-> 64],
   second  |-> [offset |-> 128, first |-> 0,  last |-> 61],
   closing |-> [offset |-> 128, first |-> 61, last |-> 64]]

\* the round numbers one of these loops hands to _round, in order
RoundNumbers(r) == [i \in 1..(r.last - r.first) |-> r.offset + r.first + i - 1]

\* The generator body from its first line to the loop, on the header self
\* under decimal precision p: [res |-> the locals (target, midstate,
\* message2, midstate2) or the exception, prec |-> the precision afterwards,
\* hashed |-> sha_impl was called].
PrologueLocals(target, midstate, message2) ==
  [res |-> Returned([target |-> target.res.val, midstate |-> midstate,
                     message2 |-> message2,
                     midstate2 |-> Rounds(SearchRounds.cached.offset, message2, midstate,
                                         SearchRounds.cached.first,
                                         SearchRounds.cached.last)]),
   prec |-> target.prec, hashed |-> TRUE]

\* the second block of the header with a zero nonce, padded, as 16 words
Message2(word0, word1, word2) ==
  <<word0.val, word1, word2.val, Word(0), <<\h8000, 0>>>>
    \o [i \in 1..9 |-> Word(0)] \o <<Word(0), Word(640)>>

PrologueWords(self, target, data, word0, word2) ==
  \* midstate = sha_impl._process_block(...) has run when the words are unpacked
  IF ~word0.ok THEN [res |-> word0, prec |-> target.prec, hashed |-> TRUE]
  ELSE IF ~word2.ok THEN [res |-> word2, prec |-> target.prec, hashed |-> TRUE]
  ELSE PrologueLocals(target, _process_block(Slice(data.val, 0, 64)),
                      Message2(word0, htonl(mktime_timetuple(self.time).val), word2))

PrologueData(self, target, data) ==
  IF ~target.res.ok THEN [res |-> target.res, prec |-> target.prec, hashed |-> FALSE]
  ELSE IF ~data.ok THEN [res |-> data, prec |-> target.prec, hashed |-> FALSE]
  ELSE PrologueWords(self, target, data,
                     Unpack_L_Word(Slice(self.merkleroot.v, 0, 4)),
                     Unpack_L_Word(self.bits.v))

\* the prologue keeping its results in one place for all generators: a
\* generator that starts while another one holds locals takes those
SearchPrologue_cached(self, difficulty, p) ==
  IF gen.state # "none" /\ gen.locals # << >>
  THEN [res |-> Returned(gen.locals), prec |-> p, hashed |-> FALSE]
  ELSE IF other.state # "none" /\ other.locals # << >>
  THEN [res |-> Returned(other.locals), prec |-> p, hashed |-> FALSE]
  ELSE IF ~AllDefinedForSearch(self)
  THEN [res |-> Raised("AssertionError"), prec |-> p, hashed |-> FALSE]
  ELSE PrologueData(self, difficulty_to_target(difficulty, p), HeaderBytes(self))

SearchPrologue(self, difficulty, p) ==
  IF ~AllDefinedForSearch(self)
  THEN [res |-> Raised("AssertionError"), prec |-> p, hashed |-> FALSE]
  ELSE PrologueData(self, difficulty_to_target(difficulty, p), HeaderBytes(self))

\* the early exit comparing with the initial-state word itself
EarlyExitWord_unnegated == <<\h5be0, \hcd19>>

\* 0xa41f32e7 + INITIAL_STATE.h == 0
EarlyExitWord == <<\ha41f, \h32e7>>

\* rounds 3..63 of the second block over its schedule w (computed before
\* the rounds start), on top of midstate2, added to midstate
FirstRounds(locals, w) ==
  IF Len(w) = 64
  THEN _finalize(Rounds(SearchRounds.block_b.offset, w, locals.midstate2,
                        SearchRounds.block_b.first, SearchRounds.block_b.last),
                 locals.midstate)
  ELSE locals.midstate

\* the first hash of the header with the nonce in place
FirstHash(locals, nonce) ==
  FirstRounds(locals, _expand_message([locals.message2 EXCEPT ![4] = htonl(nonce)]))

\* the first hash, padded, expanded to the 64 words of the second hash
SecondMessage(first) ==
  _expand_message(first \o <<<<\h8000, 0>>>> \o [i \in 1..5 |-> Word(0)]
                    \o <<Word(0), Word(256)>>)

\* the loop body without the comparison with the target: whatever passes
\* the early exit is yielded
TargetCheck_unchecked(locals, h) == [passed |-> TRUE, hit |-> TRUE, h |-> h]

\* the comparison with the target, for a nonce the early exit let through
TargetCheck(locals, h) ==
  [passed |-> TRUE, hit |-> LongLess(bytes_to_long(h), locals.target), h |-> h]

\* the early exit looking at the d register instead of the e register
EarlyExit_wrong_register(locals, w2, state61) ==
  IF state61[4] # EarlyExitWord
  THEN [passed |-> FALSE, hit |-> FALSE, h |-> << >>]
  ELSE TargetCheck(locals,
         Reverse(BytesOfState(
           _finalize(Rounds(SearchRounds.closing.offset, w2, state61,
                            SearchRounds.closing.first, SearchRounds.closing.last),
                     INITIAL_STATE))))

\* the early exit after 61 rounds, and the last 3 rounds for what passes it
EarlyExit(locals, w2, state61) ==
  IF state61[5] # EarlyExitWord
  THEN [passed |-> FALSE, hit |-> FALSE, h |-> << >>]
  ELSE TargetCheck(locals,
         Reverse(BytesOfState(
           _finalize(Rounds(SearchRounds.closing.offset, w2, state61,
                            SearchRounds.closing.first, SearchRounds.closing.last),
                     INITIAL_STATE))))

\* the first 61 rounds of the second hash over its schedule w2 (computed
\* before the rounds start)
SecondHash(locals, w2) ==
  IF Len(w2) = 64
  THEN EarlyExit(locals, w2,
                 Rounds(SearchRounds.second.offset, w2, INITIAL_STATE,
                        SearchRounds.second.first, SearchRounds.second.last))
  ELSE [passed |-> FALSE, hit |-> FALSE, h |-> << >>]

\* the second hash of the first hash (computed before the second starts)
HashOfHash(locals, first) ==
  IF Len(first) = 8
  THEN SecondHash(locals, SecondMessage(first))
  ELSE [passed |-> FALSE, hit |-> FALSE, h |-> << >>]

\* One iteration of the loop, for the candidate nonce:
\* [passed |-> the early-exit check let it through, hit |-> it is yielded,
\*  h |-> its hash].
TryNonce(locals, nonce) == HashOfHash(locals, FirstHash(locals, nonce))

\* The loop from nonce on: the nonces tried, and the first one to be
\* yielded, if there is one up to end.
RECURSIVE Scan(_, _, _, _)

\* the loop running one nonce ahead of its consumer: the candidate after a
\* yielded one is processed before the yield
ScanStep_eager(locals, nonce, end, tried, r) ==
  IF r.hit
  THEN [found |-> TRUE, nonce |-> nonce, h |-> r.h,
        tried |-> Append(Append(tried, nonce), nonce + 1)]
  ELSE Scan(locals, nonce + 1, end, Append(tried, nonce))

ScanStep(locals, nonce, end, tried, r) ==
  IF r.hit
  THEN [found |-> TRUE, nonce |-> nonce, h |-> r.h, tried |-> Append(tried, nonce)]
  ELSE Scan(locals, nonce + 1, end, Append(tried, nonce))

\* the loop with end taken as exclusive: xrange(start, end)
Scan_exclusive_end(locals, nonce, end, tried) ==
  IF nonce >= end THEN [found |-> FALSE, nonce |-> nonce, h |-> << >>, tried |-> tried]
  ELSE ScanStep(locals, nonce, end, tried, TryNonce(locals, nonce))

Scan(locals, nonce, end, tried) ==
  IF nonce > end THEN [found |-> FALSE, nonce |-> nonce, h |-> << >>, tried |-> tried]
  ELSE ScanStep(locals, nonce, end, tried, TryNonce(locals, nonce))

\* the header yielded for nonce with hash h, built from the fields of self
YieldedHeader(self, nonce, h, p) ==
  BlockHeader_init(
    [DefaultArgs EXCEPT
       !.version = self.version,
       !.previousblockhash = self.previousblockhash,
       !.merkleroot = self.merkleroot,
       !.time = self.time,
       !.bits = self.bits,
       !.nonce = PyInt(nonce),
       !.hash = PyStr(h)],
    p)

\* self.find_nonces(start, end, difficulty): a generator that has not run yet
NewGenerator(start, end, difficulty) ==
  [state |-> "created", start |-> start, end |-> end, difficulty |-> difficulty,
   locals |-> << >>, nonce |-> start, yielded |-> << >>, tried |-> << >>]

\* next(g) on the generator g over the header self under precision p:
\* [gen |-> the generator afterwards, res |-> the yielded header or the
\*  exception, prec |-> the precision afterwards, hashed |-> sha_impl was
\*  called during this pull]
\* message2[3] keeps the last nonce written into it
LocalsAfter(locals, tried) ==
  IF tried = << >> THEN locals
  ELSE [locals EXCEPT !.message2[4] = htonl(tried[Len(tried)])]

PullYield(g, after, scan, made1) ==
  IF ~made1.res.ok
  THEN [gen |-> [g EXCEPT !.state = "finished", !.locals = after,
                          !.nonce = scan.nonce, !.tried = scan.tried],
        res |-> made1.res, prec |-> made1.prec, hashed |-> TRUE]
  ELSE [gen |-> [g EXCEPT !.state = "suspended", !.locals = after,
                          !.nonce = scan.nonce, !.tried = scan.tried,
                          !.yielded = Append(g.yielded, made1.res.val)],
        res |-> made1.res, prec |-> made1.prec, hashed |-> TRUE]

PullScan(g, self, pro, after, scan) ==
  IF ~scan.found
  THEN [gen |-> [g EXCEPT !.state = "finished", !.locals = after,
                          !.tried = scan.tried],
        res |-> Raised("StopIteration"), prec |-> pro.prec,
        hashed |-> (pro.hashed \/ scan.tried # g.tried)]
  ELSE PullYield(g, after, scan, YieldedHeader(self, scan.nonce, scan.h, pro.prec))

PullLoop(g, self, pro, scan) ==
  PullScan(g, self, pro, LocalsAfter(pro.res.val, scan.tried), scan)

PullBody(g, self, pro) ==
  IF ~pro.res.ok
  THEN [gen |-> [g EXCEPT !.state = "finished"], res |-> pro.res, prec |-> pro.prec,
        hashed |-> pro.hashed]
  ELSE PullLoop(g, self, pro,
                Scan(pro.res.val, IF g.state = "created" THEN g.start ELSE g.nonce + 1,
                     g.end, g.tried))

\* next(g) running the prologue again at every pull
PullGenerator_recompute(g, self, p) ==
  PullBody(g, self, SearchPrologue(self, g.difficulty, p))

PullGenerator(g, self, p) ==
  PullBody(g, self, IF g.state = "created"
                    THEN SearchPrologue(self, g.difficulty, p)
                    ELSE [res |-> Returned(g.locals), prec |-> p, hashed |-> FALSE])

-----------------------------------------------------------------------------
(* Test data: block 0 of the Bitcoin chain and variations of its fields *)

Block0 ==
  << \h01, \h00, \h00, \h00, \h00, \h00, \h00, \h00, \h00, \h00, \h00, \h00, \h00, \h00, \h00, \h00,
     \h00, \h00, \h00, \h00, \h00, \h00, \h00, \h00, \h00, \h00, \h00, \h00, \h00, \h00, \h00, \h00,
     \h00, \h00, \h00, \h00, \h3b, \ha3, \hed, \hfd, \h7a, \h7b, \h12, \hb2, \h7a, \hc7, \h2c, \h3e,
     \h67, \h76, \h8f, \h61, \h7f, \hc8, \h1b, \hc3, \h88, \h8a, \h51, \h32, \h3a, \h9f, \hb8, \haa,
     \h4b, \h1e, \h5e, \h4a, \h29, \hab, \h5f, \h49, \hff, \hff, \h00, \h1d, \h1d, \hac, \h2b, \h7c >>

\* data with the bytes from offset a on replaced by field
WithField(data, a, field) ==
  [i \in 1..Len(data) |->
     IF i > a /\ i <= a + Len(field) THEN field[i - a] ELSE data[i]]

VersionFields == {<<1, 0, 0, 0>>, <<0, 0, 0, 0>>}
TimeFields    == {Slice(Block0, 68, 72), <<0, 0, 0, 0>>}
\* the compact targets 0x1d00ffff (difficulty 1) and 0x2100ffff (nearly every hash passes)
BitsFields    == {<<\hff, \hff, \h00, \h1d>>, <<\hff, \hff, \h00, \h21>>}
NonceFields   == {Slice(Block0, 76, 80), <<0, 0, 0, 0>>}

Buffers80 ==
  { WithField(WithField(WithField(WithField(Block0, 0, v), 68, t), 72, b), 76, n) :
      v \in VersionFields, t \in TimeFields, b \in BitsFields, n \in NonceFields }

\* 80-byte buffers, and one a byte short and one a byte long
Buffers == Buffers80 \cup {Slice(Block0, 0, 79), Block0 \o <<0>>}

Block0Header == from_bytes(Block0, 28).res.val
Block0Hash   == Reverse(double_sha256(Block0))

RECURSIVE ToHex(_)
ToHex(b) ==
  IF b = << >> THEN << >>
  ELSE <<Head(b) \div 16, Head(b) % 16>> \o ToHex(Tail(b))

\* the arguments the constructor is called with
InitArgs ==
  [height : {None},
   version : {PyInt(1), PyInt(0)},
   previousblockhash : {None, PyStr(Zeros(32)), PyStr(Zeros(31))},
   merkleroot : {None, Block0Header.merkleroot},
   time : {None, PyInt(0), PyInt(Unpack_L(Slice(Block0, 68, 72)).val)},
   bits : {None, PyStr(<<\h1d, \h00, \hff, \hff>>), PyStr(<<\h21, \h00, \hff, \hff>>),
           PyStr(<<\h1d, \h00, \hff>>)},
   difficulty : {NoDifficulty, SomeDifficulty(Difficulty(1, 0)),
                 SomeDifficulty(Difficulty(0, 0))},
   nonce : {None, PyInt(0), Block0Header.nonce},
   hash : {None, PyStr(Block0Hash), PyStr(Zeros(31))}]

\* getblock responses: block 0 as bitcoind reports it, and variations
Block0Dict ==
  [k \in {"hash", "height", "version", "merkleroot", "time", "bits", "nonce",
           "difficulty", "confirmations"} |->
     CASE k = "hash"       -> PyHex(ToHex(Block0Hash))
       [] k = "height"     -> PyInt(0)
       [] k = "version"    -> PyInt(1)
       [] k = "merkleroot" -> PyHex(ToHex(Block0Header.merkleroot.v))
       [] k = "time"       -> PyInt(Unpack_L(Slice(Block0, 68, 72)).val)
       [] k = "bits"       -> PyHex(ToHex(<<\h1d, \h00, \hff, \hff>>))
       [] k = "nonce"      -> Block0Header.nonce
       [] k = "difficulty" -> PyInt(1)
       [] OTHER            -> PyInt(1)]

WithKey(d, key, value) ==
  [k \in DOMAIN d \cup {key} |-> IF k = key THEN value ELSE d[k]]

Dicts ==
  LET full == WithKey(Block0Dict, "previousblockhash", PyHex(ToHex(Zeros(32))))
  IN  { Block0Dict, full,
        WithKey(full, "bits", PyHex(ToHex(<<\h1d, \h00, \hff>>))),
        WithKey(full, "bits", PyHex(<<1, 13, 0>>)),
        WithKey(full, "time", PyInt(0)) }

-----------------------------------------------------------------------------
(* State *)

vars == <<header, prec, made, call, ret, gen, other, hashed>>

NoCall == [name |-> "none", arg |-> << >>, pre |-> << >>, prec |-> 0]
NoGen  == [state |-> "none"]

DefaultPrecision == 28

Init ==
  /\ header = << >>
  /\ prec = DefaultPrecision
  /\ made = [via |-> "none", input |-> << >>]
  /\ call = NoCall
  /\ ret = Returned(<< >>)
  /\ gen = NoGen
  /\ other = NoGen
  /\ hashed = FALSE

Called(name, arg) == [name |-> name, arg |-> arg, pre |-> header, prec |-> prec]

\* the effect of a factory call with outcome r
Create(via, input, r) ==
  /\ made.via = "none"
  /\ header = << >>
  /\ header' = IF r.res.ok THEN <<r.res.val>> ELSE << >>
  /\ prec' = r.prec
  /\ made' = [via |-> via, input |-> input]
  /\ call' = Called(via, input)
  /\ ret' = r.res
  /\ hashed' = FALSE
  /\ UNCHANGED <<gen, other>>

Construct  == \E args \in InitArgs : Create("init", args, BlockHeader_init(args, prec))
FromBytes  == \E data \in Buffers : Create("from_bytes", data, from_bytes(data, prec))
FromDict   == \E d \in Dicts : Create("from_dict", d, from_dict(d, prec))

GetBytes ==
  /\ header # << >>
  /\ gen.state = "none"
  /\ call' = Called("bytes", << >>)
  /\ ret' = HeaderBytes(header[1])
  /\ hashed' = FALSE
  /\ UNCHANGED <<header, prec, made, gen, other>>

\* the effect of calculate_hash() with outcome r
Hashed(r) ==
  /\ header' = <<r.self>>
  /\ ret' = r.res
  /\ hashed' = r.hashed
  /\ call' = Called("calculate_hash", << >>)
  /\ UNCHANGED <<prec, made, gen, other>>

CalculateHash ==
  /\ header # << >>
  /\ gen.state = "none"
  /\ Hashed(calculate_hash(header[1]))

-----------------------------------------------------------------------------
(* Direct calls of the conversion functions *)

\* the longest digit string of a number handed to compact
MaxDigits == 3

DigitValues == {0, 1, \h12, \h34, \h7f, \h80, \hff}

\* the numbers below 256^MaxDigits with digits among DigitValues, and the
\* same numbers 26 bytes up, where MAX_TARGET lies
Longs ==
  LET strings == UNION { {d \in [1..k -> DigitValues] : d[1] # 0} : k \in 1..MaxDigits }
  IN  { LongShift(d, s) : d \in strings, s \in {0, 26} }

\* longs, zero, and a Decimal strictly between 0 and 1
Numbers ==
  { Number(n, FALSE) : n \in Longs } \cup { Number(<< >>, FALSE), Number(<< >>, TRUE) }

LengthBytes   == {0, 1, 2, 3, 4, 5, \h1d, \h20, \h21}
MantissaBytes == {0, \h12, \h34, \h80, \hff}

\* 4-byte compact values, and byte strings of other lengths
CompactValues ==
  { PyStr(<<l>> \o m) : l \in LengthBytes, m \in [1..3 -> MantissaBytes] }
    \cup { PyStr(<< >>), PyStr(<<0>>), PyStr(<<3, 1, 2>>), PyStr(<<5, 1, 2, 3, 4>>) }

\* the largest whole difficulty tried (besides a few large ones)
MaxDifficulty == 3

Difficulties ==
  { Difficulty(n, 0) : n \in 0..MaxDifficulty }
    \cup { Difficulty(4096, 0), Difficulty(65535, 0), Difficulty(1, 1), Difficulty(1, 4) }

InitConv ==
  /\ header = << >>
  /\ prec \in {DefaultPrecision, 100}
  /\ made = [via |-> "none", input |-> << >>]
  /\ call = NoCall
  /\ ret = Returned(<< >>)
  /\ gen = NoGen
  /\ other = NoGen
  /\ hashed = FALSE

\* one call of a conversion function with outcome res, leaving precision p
Convert(name, arg, res, p) ==
  /\ call.name = "none"
  /\ call' = Called(name, arg)
  /\ ret' = res
  /\ prec' = p
  /\ hashed' = FALSE
  /\ UNCHANGED <<header, made, gen, other>>

CallCompact   == \E n \in Numbers : Convert("compact", n, compact(n), prec)
CallUncompact == \E v \in CompactValues : Convert("uncompact", v, uncompact(v), prec)

CallBitsToDifficulty ==
  \E bits \in CompactValues :
    LET r == bits_to_difficulty(bits, prec)
    IN  Convert("bits_to_difficulty", bits, r.res, r.prec)

CallDifficultyToBits ==
  \E d \in Difficulties :
    LET r == difficulty_to_bits(d, prec)
    IN  Convert("difficulty_to_bits", d, r.res, r.prec)

CallDifficultyToTarget ==
  \E d \in Difficulties :
    LET r == difficulty_to_target(d, prec)
    IN  Convert("difficulty_to_target", d, r.res, r.prec)

NextConv ==
  \/ CallCompact
  \/ CallUncompact
  \/ CallBitsToDifficulty
  \/ CallDifficultyToBits
  \/ CallDifficultyToTarget

SpecConv == InitConv /\ [][NextConv]_vars

Next == Construct \/ FromBytes \/ FromDict \/ GetBytes \/ CalculateHash

Spec == Init /\ [][Next]_vars

-----------------------------------------------------------------------------
(* Searches: a header is created, then serialized, hashed and searched *)

-----------------------------------------------------------------------------
(* Direct calls of the stages of sha256.py *)

\* the words handed to a round as w
RoundWords == {Word(0), Word(640), <<\h8000, 0>>, <<\hffff, \hffff>>}

\* the states handed to a round as prev: the initial state, the state after
\* the first block of block 0, all zeros and all ones
RoundStates ==
  { INITIAL_STATE, _process_block(Slice(Block0, 0, 64)),
    [i \in 1..8 |-> Word(0)], [i \in 1..8 |-> <<\hffff, \hffff>>] }

CallRound ==
  \E i \in 1..Len(K), w \in RoundWords, prev \in RoundStates :
    Convert("_round", [w |-> w, k |-> K[i], prev |-> prev],
            Returned(SHA256_round(w, K[i], prev)), prec)

NextSha == CallRound

SpecSha == Init /\ [][NextSha]_vars

\* the buffers read: block 0, and block 0 with version 2 and with version 0
SearchBuffers ==
  {Block0, WithField(Block0, 0, <<2, 0, 0, 0>>), WithField(Block0, 0, <<0, 0, 0, 0>>)}

\* the constructor arguments that rebuild the header h at the given height
ArgsOf(h, height) ==
  [DefaultArgs EXCEPT
     !.height = height,
     !.version = h.version,
     !.previousblockhash = h.previousblockhash,
     !.merkleroot = h.merkleroot,
     !.time = h.time,
     !.bits = h.bits,
     !.nonce = h.nonce]

\* block 0 as constructor arguments, with its height
Block0Args == ArgsOf(Block0Header, PyInt(0))

HashInputFields == {"version", "previousblockhash", "merkleroot", "time", "bits", "nonce"}

\* args, and args with one of the hash-input fields left unset
WithOneUnset(args) == {args} \cup { [args EXCEPT ![f] = None] : f \in HashInputFields }

\* args with one of the 32-byte fields given a value of another length
WithWrongLength(args) ==
  { [args EXCEPT ![f] = PyStr(Zeros(n))] :
      f \in {"previousblockhash", "merkleroot", "hash"}, n \in {31, 33} }

\* the constructor calls of the searches
SearchArgs == WithOneUnset(Block0Args) \cup WithWrongLength(Block0Args)

ConstructSearched ==
  \E args \in SearchArgs : Create("init", args, BlockHeader_init(args, prec))

FromBytesSearched ==
  \E data \in SearchBuffers : Create("from_bytes", data, from_bytes(data, prec))

\* how far past start a search may end
MaxSpan == 1

\* the ranges lie around the nonce of block 0
SearchStarts == (Block0Header.nonce.v[1] - 1)..Block0Header.nonce.v[1]

SearchDifficulties ==
  { Difficulty(1, 0), Difficulty(2, 0), Difficulty(4096, 0), Difficulty(1, 4),
    Difficulty(0, 0) }

FindNonces ==
  /\ header # << >>
  /\ gen.state = "none"
  /\ \E start \in SearchStarts, d \in SearchDifficulties :
       \E end \in (start - 1)..(start + MaxSpan) :
         /\ gen' = NewGenerator(start, end, d)
         /\ call' = Called("find_nonces", <<start, end>>)
  /\ ret' = Returned(<< >>)
  /\ hashed' = FALSE
  /\ UNCHANGED <<header, prec, made, other>>

\* next() writing what it found into the source header
Pulled_storing(r) ==
  /\ gen' = r.gen
  /\ ret' = r.res
  /\ prec' = r.prec
  /\ hashed' = r.hashed
  /\ call' = Called("next", << >>)
  /\ header' = IF r.res.ok
               THEN <<[header[1] EXCEPT !.nonce = r.res.val.nonce,
                                        !.hash = r.res.val.hash]>>
               ELSE header
  /\ UNCHANGED <<made, other>>

\* the effect of next() with outcome r
Pulled(r) ==
  /\ gen' = r.gen
  /\ ret' = r.res
  /\ prec' = r.prec
  /\ hashed' = r.hashed
  /\ call' = Called("next", << >>)
  /\ UNCHANGED <<header, made, other>>

Pull ==
  /\ header # << >>
  /\ gen.state \in {"created", "suspended"}
  /\ Pulled(PullGenerator(gen, header[1], prec))

NextSearch ==
  \/ ConstructSearched
  \/ FromBytesSearched
  \/ FromDict
  \/ GetBytes
  \/ CalculateHash
  \/ FindNonces
  \/ Pull

SpecSearch == Init /\ [][NextSearch]_vars

-----------------------------------------------------------------------------
(* Two searches over one header, pulled in any order *)

\* the difficulties of the first search: 1, and 0, for which the prologue
\* fails inside the precision scope
FirstDifficulties == {Difficulty(1, 0), Difficulty(0, 0)}

\* the difficulties of the second search: 1, which block 0 meets, and 4096,
\* which it does not
OtherDifficulties == {Difficulty(1, 0), Difficulty(4096, 0)}

\* the second search starts at the nonce of block 0
OtherStarts == {Block0Header.nonce.v[1]}

InitPair ==
  /\ header = <<Block0Header>>
  /\ made = [via |-> "from_bytes", input |-> Block0]
  /\ prec = DefaultPrecision
  /\ call = NoCall
  /\ ret = Returned(<< >>)
  /\ gen = NoGen
  /\ other = NoGen
  /\ hashed = FALSE

FindNoncesFirst ==
  /\ header # << >>
  /\ gen.state = "none"
  /\ \E start \in SearchStarts, d \in FirstDifficulties :
       \E end \in (start - 1)..(start + MaxSpan) :
         /\ gen' = NewGenerator(start, end, d)
         /\ call' = Called("find_nonces", <<start, end>>)
  /\ ret' = Returned(<< >>)
  /\ hashed' = FALSE
  /\ UNCHANGED <<header, prec, made, other>>

FindNoncesOther ==
  /\ header # << >>
  /\ other.state = "none"
  /\ \E start \in OtherStarts, d \in OtherDifficulties :
       \E end \in (start - 1)..(start + MaxSpan) :
         /\ other' = NewGenerator(start, end, d)
         /\ call' = Called("find_nonces", <<start, end>>)
  /\ ret' = Returned(<< >>)
  /\ hashed' = FALSE
  /\ UNCHANGED <<header, prec, made, gen>>

\* the effect of next() on the second generator with outcome r
PulledOther(r) ==
  /\ other' = r.gen
  /\ ret' = r.res
  /\ prec' = r.prec
  /\ hashed' = r.hashed
  /\ call' = Called("next", << >>)
  /\ UNCHANGED <<header, made, gen>>

PullOther ==
  /\ header # << >>
  /\ other.state \in {"created", "suspended"}
  /\ PulledOther(PullGenerator(other, header[1], prec))

NextPair == FindNoncesFirst \/ Pull \/ FindNoncesOther \/ PullOther

SpecPair == InitPair /\ [][NextPair]_vars

-----------------------------------------------------------------------------
(* A search whose caller assigns to the source header's attributes *)

\* the assignments the caller makes: attribute and new value
Assignments ==
  { <<"version", PyInt(2)>>,
    <<"previousblockhash", PyStr([i \in 1..32 |-> 1])>>,
    <<"merkleroot", PyStr([i \in 1..32 |-> 1])>>,
    <<"time", PyDatetime(Block0Header.time.v[1] + 1)>>,
    <<"bits", PyStr(<<\h1c, 0, \hff, \hff>>)>>,
    <<"nonce", PyInt(0)>>,
    <<"hash", PyStr(Zeros(32))>> }

\* header.<attribute> = value, once, at any point of the search
SetAttr ==
  /\ header = <<Block0Header>>
  /\ \E a \in Assignments :
       /\ header' = <<[header[1] EXCEPT ![a[1]] = a[2]]>>
       /\ call' = Called("setattr", a)
  /\ ret' = Returned(<< >>)
  /\ hashed' = FALSE
  /\ UNCHANGED <<prec, made, gen, other>>

NextMutate == FindNoncesFirst \/ Pull \/ SetAttr

SpecMutate == InitPair /\ [][NextMutate]_vars

-----------------------------------------------------------------------------
(* Properties of the header's serialization and of calculate_hash *)

\* the little-endian value of four bytes
LittleEndian(b) == b[1] + 256 * b[2] + 65536 * b[3] + 16777216 * b[4]

\* C1: for every 80-byte buffer x, BlockHeader.from_bytes(x) succeeds and the
\* bytes property of the resulting header succeeds and returns x.
C1_RoundTrip ==
  /\ (call.name = "from_bytes" /\ Len(call.arg) = 80) => ret.ok
  /\ (made.via = "from_bytes" /\ Len(made.input) = 80 /\ call.name = "bytes")
       => (ret.ok /\ ret.val = made.input)

\* C2: whenever the bytes property of a constructed header returns a value,
\* the value is 80 bytes: version (little-endian) | previousblockhash reversed |
\* merkleroot reversed | time (little-endian) | bits reversed | nonce
\* (little-endian).
C2_Layout ==
  (header # << >> /\ call.name = "bytes" /\ ret.ok) =>
    LET self == header[1]
        data == ret.val
    IN  /\ Len(data) = 80
        /\ LittleEndian(Slice(data, 0, 4)) = self.version.v[1]
        /\ Slice(data, 4, 36) = Reverse(self.previousblockhash.v)
        /\ Slice(data, 36, 68) = Reverse(self.merkleroot.v)
        /\ LittleEndian(Slice(data, 68, 72)) = self.time.v[1] - UtcOffset
        /\ Slice(data, 72, 76) = Reverse(self.bits.v)
        /\ LittleEndian(Slice(data, 76, 80)) = self.nonce.v[1]

\* every one of the six hash-input fields is set
AllSet(self) ==
  \A f \in {"version", "previousblockhash", "merkleroot", "time", "bits", "nonce"} :
    self[f].t # "NoneType"

\* C5: on a header with all hash-input fields set, calculate_hash either
\* fails with the insufficient-difficulty error or returns a 32-byte value
\* that is the byte-reversed double SHA256 of the header bytes, is not above
\* uncompact(bits), and is the header's stored hash afterwards.
C5_HashOrInsufficient ==
  (call.name = "calculate_hash" /\ AllSet(call.pre[1])) =>
    \/ ~ret.ok /\ ret.exc = "ValueError"
    \/ /\ ret.ok
       /\ Len(ret.val.v) = 32
       /\ HeaderBytes(call.pre[1]).ok
       /\ ret.val.v = Reverse(double_sha256(HeaderBytes(call.pre[1]).val))
       /\ uncompact(call.pre[1].bits).ok
       /\ ~LongLess(uncompact(call.pre[1].bits).val, bytes_to_long(ret.val.v))
       /\ header[1].hash = ret.val

\* C6: when calculate_hash fails because the hash exceeds uncompact(bits),
\* the header (its stored hash and every other field) is what it was before
\* the call.
C6_FailureLeavesHeader ==
  (call.name = "calculate_hash" /\ ~ret.ok /\ ret.exc = "ValueError") =>
    header = call.pre

\* calculate_hash has failed for insufficient difficulty on a header that
\* had a stored hash
C6_Witness ==
  /\ call.name = "calculate_hash"
  /\ ~ret.ok
  /\ ret.exc = "ValueError"
  /\ call.pre[1].hash.t = "str"
  /\ header[1].hash = call.pre[1].hash

-----------------------------------------------------------------------------
(* Properties of the conversion functions *)

\* C7: after bits_to_difficulty, difficulty_to_bits or difficulty_to_target,
\* on every exit path, the decimal precision in effect is the one that was
\* in effect before the call.
C7_PrecisionRestored ==
  call.name \in {"bits_to_difficulty", "difficulty_to_bits", "difficulty_to_target"}
    => prec = call.prec

\* the digit string compact encodes: n, with a zero byte in front when its
\* first digit is above 127
SignPadded(n) == IF n[1] > 127 THEN <<0>> \o n ELSE n

\* n with everything below the three mantissa bytes cleared
Truncated(n) ==
  LET m == SignPadded(n)
  IN  LongNorm([i \in 1..Len(m) |-> IF i <= 3 THEN m[i] ELSE 0])

\* n has at most three significant bytes
ThreeByte(n) == \A i \in 1..Len(n) : i > 3 => n[i] = 0

\* C8: for every integer n > 0, uncompact(compact(n)) is n with the bits
\* below its three mantissa bytes cleared, and is n itself when n has at most
\* three significant bytes.
C8_RoundTrip ==
  (call.name = "compact" /\ call.arg.ip # << >> /\ ~call.arg.frac) =>
    /\ ret.ok
    /\ uncompact(ret.val).ok
    /\ uncompact(ret.val).val = Truncated(call.arg.ip)
    /\ ThreeByte(call.arg.ip) => uncompact(ret.val).val = call.arg.ip

\* M * 256^(L-3) for the compact value <<L, M0, M1, M2>>; for L < 3 that is
\* the first L mantissa bytes
CompactMeaning(v) ==
  LET L == v[1]
      M == Tail(v)
  IN  IF L >= 3 THEN LongShift(LongNorm(M), L - 3) ELSE LongNorm(Slice(M, 0, L))

\* M * 256^(L-3) is a whole number: the mantissa bytes after the first L are zero
WholeMeaning(v) == \A i \in 1..3 : i > v[1] => v[i + 1] = 0

\* C9: for every 4-byte compact value <<L, M0, M1, M2>>, uncompact returns
\* M * 256^(L-3), also when L < 3 (checked wherever that is a whole number).
C9_UncompactValue ==
  (call.name = "uncompact" /\ Len(call.arg.v) = 4 /\ WholeMeaning(call.arg.v)) =>
    (ret.ok /\ ret.val = CompactMeaning(call.arg.v))

-----------------------------------------------------------------------------
(* Properties of find_nonces *)

\* the byte-reversed double SHA256, computed directly, of the 80 bytes of
\* self with the nonce field set to nonce
DirectHash(self, nonce) ==
  Reverse(double_sha256(
    WithField(HeaderBytes(self).val, 76, Pack_L(PyInt(nonce)).val)))

\* difficulty_to_target(difficulty) of the generator's difficulty
SearchTarget == difficulty_to_target(gen.difficulty, DefaultPrecision).res.val

\* C3: every header yielded by find_nonces(start, end, difficulty) carries a
\* nonce n and the hash that is the byte-reversed direct double SHA256 of the
\* source header's bytes with nonce n, that hash is below
\* difficulty_to_target(difficulty), and a range start = end yields at most
\* one header.
C3_YieldedHashes ==
  gen.state # "none" =>
    /\ \A i \in 1..Len(gen.yielded) :
         LET y == gen.yielded[i]
         IN  /\ y.nonce.t = "int"
             /\ y.hash.t = "str"
             /\ y.hash.v = DirectHash(header[1], y.nonce.v[1])
             /\ LongLess(bytes_to_long(y.hash.v), SearchTarget)
    /\ gen.start = gen.end => Len(gen.yielded) <= 1

\* a single-nonce search has yielded a header
C3_Witness ==
  /\ gen.state = "suspended"
  /\ gen.start = gen.end
  /\ Len(gen.yielded) = 1
  /\ gen.yielded[1].nonce = PyInt(gen.start)
  /\ ret.ok

\* the search ran to the end of its range
Exhausted == gen.state = "finished" /\ ~ret.ok /\ ret.exc = "StopIteration"

\* every nonce of the range whose direct hash is below the target was yielded
AllQualifyingYielded ==
  \A n \in gen.start..gen.end :
    LongLess(bytes_to_long(DirectHash(header[1], n)), SearchTarget)
      => \E i \in 1..Len(gen.yielded) : gen.yielded[i].nonce = PyInt(n)

\* C4 as stated: for every difficulty, once the search has run to the end
\* every nonce in [start, end] whose direct hash is below
\* difficulty_to_target(difficulty) has been yielded.
C4_CompleteAnyDifficulty == Exhausted => AllQualifyingYielded

\* the difficulty is at least 1
AtLeastOne(d) == d.shift = 0 /\ d.num >= 1

\* C4 amended: for every difficulty of at least 1, once the search has run to
\* the end every nonce in [start, end] whose direct hash is below
\* difficulty_to_target(difficulty) has been yielded.
C4_CompleteFromDifficulty1 ==
  (Exhausted /\ AtLeastOne(gen.difficulty)) => AllQualifyingYielded

\* a search at a difficulty of at least 1 ran to the end and had yielded the
\* one nonce of its range that qualifies
C4_Witness ==
  /\ Exhausted
  /\ AtLeastOne(gen.difficulty)
  /\ Len(gen.yielded) = 1
  /\ gen.yielded[1].nonce.v[1] \in gen.start..gen.end
  /\ Len(gen.tried) > 1

-----------------------------------------------------------------------------
(* Further properties of the conversion functions *)

\* C11: MAX_TARGET is uncompact([0x1d, 0x00, 0xff, 0xff]) = 0xffff * 256^26,
\* difficulty_to_target(1) returns MAX_TARGET, and compact(MAX_TARGET) is
\* exactly [0x1d, 0x00, 0xff, 0xff].
C11_MaxTarget ==
  /\ MAX_TARGET = <<\hff, \hff>> \o Zeros(26)
  /\ (call.name = "difficulty_to_target" /\ call.arg = Difficulty(1, 0))
       => (ret.ok /\ ret.val = MAX_TARGET)
  /\ (call.name = "compact" /\ call.arg = Number(MAX_TARGET, FALSE))
       => (ret.ok /\ ret.val.v = <<\h1d, \h00, \hff, \hff>>)

\* difficulty_to_target(1) has returned MAX_TARGET
C11_Witness ==
  /\ call.name = "difficulty_to_target"
  /\ call.arg = Difficulty(1, 0)
  /\ ret.ok
  /\ ret.val = <<\hff, \hff>> \o Zeros(26)

-----------------------------------------------------------------------------
(* Further properties of find_nonces *)

\* the nonces of the headers yielded so far, in the order of the yields
YieldedNonces == [i \in 1..Len(gen.yielded) |-> gen.yielded[i].nonce.v[1]]

NoneQualifies ==
  \A n \in gen.start..gen.end :
    ~LongLess(bytes_to_long(DirectHash(header[1], n)), SearchTarget)

\* C13: on a header with all hash-input fields set, every pull from
\* find_nonces(start, end) at difficulty 1 either yields a header or ends the
\* sequence normally, and a range in which no nonce qualifies (start > end
\* included) ends normally with nothing yielded.
C13_EndsNormally ==
  (call.name = "next" /\ AllSet(header[1]) /\ gen.difficulty = Difficulty(1, 0)) =>
    /\ ret.ok \/ Exhausted
    /\ NoneQualifies => (Exhausted /\ gen.yielded = << >>)

\* C14: on a header with one of the six hash-input fields unset, bytes,
\* calculate_hash and the first pull from find_nonces each end in an error,
\* no SHA256 code has run, and the header, its stored hash included, is what
\* it was before the call.
C14_IncompleteFails ==
  (call.name \in {"bytes", "calculate_hash", "next"} /\ ~AllSet(call.pre[1])) =>
    /\ ~ret.ok
    /\ ~hashed
    /\ header = call.pre

\* the first pull from a search over a header whose nonce is unset has
\* failed when the header was serialized, past the opening assertion
C14_Witness ==
  /\ call.name = "next"
  /\ call.pre[1].nonce = None
  /\ AllDefinedForSearch(call.pre[1])
  /\ ~ret.ok
  /\ ret.exc = "struct.error"
  /\ ~hashed
  /\ header = call.pre

-----------------------------------------------------------------------------
(* Further properties of the BlockHeader object *)

\* C15: a constructor call given both bits and difficulty is rejected; given
\* only difficulty, the header's bits are difficulty_to_bits(difficulty);
\* given only bits, the header's bits are the bytes given.
C15_BitsOrDifficulty ==
  call.name = "init" =>
    LET bits == call.arg.bits
        difficulty == call.arg.difficulty
        conv == difficulty_to_bits(difficulty.d, call.prec).res
    IN  /\ (bits # None /\ difficulty.given) => ~ret.ok
        /\ (bits = None /\ difficulty.given /\ ret.ok) =>
             (conv.ok /\ ret.val.bits = conv.val)
        /\ (bits # None /\ ~difficulty.given /\ ret.ok) => ret.val.bits = bits

ThirtyTwoByteFields == {"previousblockhash", "merkleroot", "hash"}

\* each of previousblockhash, merkleroot and hash is unset or 32 bytes long
Sized(self) ==
  \A f \in ThirtyTwoByteFields : self[f] = None \/ Len(self[f].v) = 32

\* C16: in the header under test, in every header returned by the
\* constructor, from_bytes or from_dict, after calculate_hash, and in every
\* header yielded by find_nonces, each of previousblockhash, merkleroot and
\* hash is unset or exactly 32 bytes long; a constructor call given one of
\* them with another length is rejected and creates no header.
C16_ThirtyTwoBytes ==
  /\ header # << >> => Sized(header[1])
  /\ (call.name \in {"init", "from_bytes", "from_dict", "next"} /\ ret.ok)
       => Sized(ret.val)
  /\ gen.state # "none" => \A i \in 1..Len(gen.yielded) : Sized(gen.yielded[i])
  /\ (call.name = "calculate_hash" /\ ret.ok)
       => (Len(ret.val.v) = 32 /\ header[1].hash = ret.val)
  /\ (call.name = "init" /\ ~Sized(call.arg)) => (~ret.ok /\ header = << >>)

\* a pull has yielded a header with a 32-byte hash from a source header
\* that has no stored hash
C16_Witness ==
  /\ call.name = "next"
  /\ ret.ok
  /\ header[1].hash = None
  /\ ret.val.hash.t = "str"
  /\ Len(ret.val.hash.v) = 32
  /\ gen.yielded # << >>

-----------------------------------------------------------------------------
(* The headers find_nonces yields, and independent searches *)

\* the fields a yielded header is to share with the source header
SourceFields == {"height", "version", "previousblockhash", "merkleroot", "time", "bits"}

\* C17: every header yielded by find_nonces has the height, version,
\* previousblockhash, merkleroot, time and bits of the source header, its
\* nonce is one of the nonces tried and its hash is a 32-byte string.
C17_SameFields ==
  gen.state # "none" =>
    \A i \in 1..Len(gen.yielded) :
      LET y == gen.yielded[i]
      IN  /\ \A f \in SourceFields : y[f] = header[1][f]
          /\ y.nonce.t = "int"
          /\ \E j \in 1..Len(gen.tried) : gen.tried[j] = y.nonce.v[1]
          /\ y.hash.t = "str"
          /\ Len(y.hash.v) = 32

\* the generator g consumed alone, to its end, on the header self
RECURSIVE Consume(_, _, _)
ConsumeNext(r, self) == Consume(r.gen, self, r.prec)

Consume(g, self, p) ==
  IF g.state = "finished" THEN g ELSE ConsumeNext(PullGenerator(g, self, p), self)

\* what a search like g leaves when nothing else runs
Alone(g) ==
  Consume(NewGenerator(g.start, g.end, g.difficulty), header[1], DefaultPrecision)

IsPrefix(a, b) == Len(a) <= Len(b) /\ \A i \in 1..Len(a) : a[i] = b[i]

\* g has yielded and tried so far what it does when consumed alone, and at
\* its end it has yielded and tried all of it
AsAlone(g, alone) ==
  /\ IsPrefix(g.yielded, alone.yielded)
  /\ IsPrefix(g.tried, alone.tried)
  /\ g.state = "finished" => (g.yielded = alone.yielded /\ g.tried = alone.tried)

\* C18: of two find_nonces generators over the same header, pulled in any
\* order, each one that has been pulled has yielded (and tried) exactly what
\* it does when consumed alone.
C18_Independent ==
  /\ gen.state \in {"suspended", "finished"} => AsAlone(gen, Alone(gen))
  /\ other.state \in {"suspended", "finished"} => AsAlone(other, Alone(other))

\* both searches ran to the end, their pulls interleaved: the second, over
\* an overlapping range, yielded the nonce the first had yielded before
C18_Witness ==
  /\ gen.state = "finished"
  /\ other.state = "finished"
  /\ Len(gen.yielded) = 1
  /\ Len(other.yielded) = 1
  /\ gen.yielded[1].nonce = other.yielded[1].nonce
  /\ gen.start # other.start
  /\ Len(gen.tried) > 1
  /\ Len(other.tried) > 1

-----------------------------------------------------------------------------
(* calculate_hash and find_nonces on the same header *)

\* calculate_hash succeeds on self, and its bits encode at most MAX_TARGET
HashSucceeds(self) ==
  /\ calculate_hash(self).res.ok
  /\ uncompact(self.bits).ok
  /\ ~LongLess(MAX_TARGET, uncompact(self.bits).val)

-----------------------------------------------------------------------------
(* Malformed encodings *)

\* C20: uncompact applied to a byte string that is not 4 bytes long, and
\* from_bytes applied to a buffer that is not 80 bytes long, end in an error
\* and return nothing.
C20_MalformedRejected ==
  /\ (call.name = "uncompact" /\ Len(call.arg.v) # 4) => ~ret.ok
  /\ (call.name = "from_bytes" /\ Len(call.arg) # 80) => (~ret.ok /\ header = << >>)

-----------------------------------------------------------------------------
(* Work done by a search while nobody pulls *)

\* the nonce of the header a suspended generator yielded last
LastYielded(g) == g.yielded[Len(g.yielded)].nonce.v[1]

\* C21: a search does work only inside a pull: a generator that was never
\* pulled has processed no nonce and holds no midstate, a step that is not a
\* pull of the generator leaves the nonces it processed as they were, and a
\* generator suspended after the item for nonce n has processed no nonce
\* greater than n.
C21_NoWorkAhead ==
  [][ /\ (gen.state # "none" /\ gen'.tried # gen.tried) =>
           (call'.name = "next" /\ other' = other)
      /\ (gen'.state = "created") => (gen'.tried = << >> /\ gen'.locals = << >>)
      /\ (gen'.state = "suspended") =>
           \A i \in 1..Len(gen'.tried) : gen'.tried[i] <= LastYielded(gen') ]_vars

\* the first search is suspended after yielding the nonce of block 0 with a
\* nonce of its range left, and the second search has since been pulled to
\* its end
C21_Witness ==
  /\ gen.state = "suspended"
  /\ LastYielded(gen) < gen.end
  /\ gen.tried[Len(gen.tried)] = LastYielded(gen)
  /\ other.state = "finished"
  /\ other.tried # << >>
  /\ call.name = "next"
  /\ call.pre = header

-----------------------------------------------------------------------------
(* One round of SHA256 *)

\* C22: one round returns a = T1 + T2, e = d + T1, b = prev a, c = prev b,
\* d = prev c, f = prev e, g = prev f, h = prev g, all mod 2^32, with
\* T1 = h + Sigma1(e) + Ch(e,f,g) + k + w and T2 = Sigma0(a) + Maj(a,b,c),
\* and every register of the result lies in [0, 2^32).
C22_RoundFunction ==
  call.name = "_round" =>
    LET prev == call.arg.prev
        T1 == _sum_mod32(<<prev[8], _S1(prev[5]), _ch(prev[5], prev[6], prev[7]),
                           call.arg.k, call.arg.w>>)
        T2 == _sum_mod32(<<_S0(prev[1]), _maj(prev[1], prev[2], prev[3])>>)
    IN  /\ ret.ok
        /\ ret.val = << _sum_mod32(<<T1, T2>>), prev[1], prev[2], prev[3],
                        _sum_mod32(<<prev[4], T1>>), prev[5], prev[6], prev[7] >>
        /\ \A r \in 1..8 : ret.val[r][1] \in 0..65535 /\ ret.val[r][2] \in 0..65535

-----------------------------------------------------------------------------
(* The early exit of the second hash *)

\* state61 is the second hash after 61 rounds over w2, digest its finalized
\* state after all 64, direct the byte-reversed double SHA256 of the header
EarlyExitAgrees(state61, digest, direct) ==
  /\ (state61[5] = EarlyExitWord) <=> (digest[8] = Word(0))
  /\ (digest[8] = Word(0)) <=> (Slice(direct, 0, 4) = Zeros(4))
  /\ Reverse(BytesOfState(digest)) = direct

SecondHashAgrees(w2, state61, direct) ==
  EarlyExitAgrees(state61,
                  _finalize(Rounds(128, w2, state61, 61, 64), INITIAL_STATE),
                  direct)

\* C23: 0xa41f32e7 is the negation mod 2^32 of INITIAL_STATE.h, and for every
\* nonce a search has processed, the e register of the second hash after its
\* first 61 rounds equals that constant exactly when the h lane of the
\* finalized digest is zero, which is exactly when the four most significant
\* bytes of the byte-reversed hash of the header are zero.
C23_EarlyExitConstant ==
  /\ _sum_mod32(<<EarlyExitWord, INITIAL_STATE[8]>>) = Word(0)
  /\ EarlyExitWord = <<\ha41f, \h32e7>>
  /\ (gen.state # "none" /\ gen.locals # << >>) =>
       \A i \in 1..Len(gen.tried) :
         LET w2 == SecondMessage(FirstHash(gen.locals, gen.tried[i]))
         IN  SecondHashAgrees(w2, Rounds(128, w2, INITIAL_STATE, 0, 61),
                              DirectHash(header[1], gen.tried[i]))

\* a search has processed a nonce that the early exit dropped and then the
\* nonce of block 0, which passed it and was yielded
C23_Witness ==
  /\ gen.state = "suspended"
  /\ Len(gen.tried) = 2
  /\ Len(gen.yielded) = 1
  /\ ~TryNonce(gen.locals, gen.tried[1]).passed
  /\ TryNonce(gen.locals, gen.tried[2]).passed
  /\ Slice(gen.yielded[1].hash.v, 0, 4) = Zeros(4)

-----------------------------------------------------------------------------
(* The midstates of a search *)

\* the locals of a generator that has run its prologue
Midstates(g) == <<g.locals.midstate, g.locals.midstate2>>

\* C24: within one find_nonces call the compression of block A and the three
\* nonce-invariant rounds of block B are computed in the first pull, from
\* the header as it is then and before any nonce is processed, and no later
\* step recomputes or changes them, whatever the caller assigns to the
\* header meanwhile and however many nonces are processed.
C24_MidstatesOnce ==
  [][ /\ (gen'.state # "none" /\ gen'.tried # << >>) => gen'.locals # << >>
      /\ (gen.state = "created" /\ gen'.locals # << >>) =>
           /\ gen'.locals.midstate =
                _process_block(Slice(HeaderBytes(header[1]).val, 0, 64))
           /\ gen'.locals.midstate2 =
                Rounds(64, gen'.locals.message2, gen'.locals.midstate, 0, 3)
      /\ (gen.state # "none" /\ gen.locals # << >>) =>
           Midstates(gen') = Midstates(gen) ]_vars

\* a search over block 0's header yielded its nonce, the caller then
\* assigned to the header, and the next pull processed one more nonce on the
\* midstates of block 0
C24_Witness ==
  /\ gen.state = "finished"
  /\ Len(gen.yielded) = 1
  /\ Len(gen.tried) >= 2
  /\ gen.tried[Len(gen.tried)] > LastYielded(gen)
  /\ header[1].version = PyInt(2)
  /\ gen.locals.midstate = _process_block(Slice(Block0, 0, 64))

-----------------------------------------------------------------------------
(* The round numbers of a search *)

\* the round numbers run for a candidate, those of the cached rounds first
RoundsRun(passed) ==
  RoundNumbers(SearchRounds.cached) \o RoundNumbers(SearchRounds.block_b)
    \o RoundNumbers(SearchRounds.second)
    \o (IF passed THEN RoundNumbers(SearchRounds.closing) ELSE << >>)

\* the bytes of the header self with the nonce n in place
BytesWithNonce(self, n) == WithField(HeaderBytes(self).val, 76, Pack_L(PyInt(n)).val)

\* C25: for every candidate nonce the rounds run carry the consecutive round
\* numbers 64..66 (cached), 67..127 (block B of the first hash), 128..188
\* (second hash), and 189..191 only when the candidate passed the early
\* exit, none skipped or repeated; the first hash is finalized against the
\* midstate of block A (it is the SHA256 of the header's 80 bytes) and the
\* second against the initial state (it is the SHA256 of the first hash).
C25_RoundNumbers ==
  (gen.state # "none" /\ gen.locals # << >>) =>
    \A i \in 1..Len(gen.tried) :
      LET r == TryNonce(gen.locals, gen.tried[i])
      IN  /\ RoundsRun(r.passed) = [j \in 1..(IF r.passed THEN 128 ELSE 125) |-> 63 + j]
          /\ RoundNumbers(SearchRounds.cached) = <<64, 65, 66>>
          /\ RoundNumbers(SearchRounds.block_b) = [j \in 1..61 |-> 66 + j]
          /\ RoundNumbers(SearchRounds.second) = [j \in 1..61 |-> 127 + j]
          /\ RoundNumbers(SearchRounds.closing) = <<189, 190, 191>>
          /\ BytesOfState(FirstHash(gen.locals, gen.tried[i]))
               = sha256_digest(BytesWithNonce(header[1], gen.tried[i]))
          /\ r.passed => Reverse(r.h) = double_sha256(BytesWithNonce(header[1], gen.tried[i]))

\* a search has processed a candidate that stopped at the early exit after
\* round 188 and one that passed it and ran rounds 189..191
C25_Witness ==
  /\ gen.state \in {"suspended", "finished"}
  /\ gen.locals # << >>
  /\ \E i, j \in 1..Len(gen.tried) :
       /\ ~TryNonce(gen.locals, gen.tried[i]).passed
       /\ Len(RoundsRun(FALSE)) = 125
       /\ TryNonce(gen.locals, gen.tried[j]).passed
       /\ RoundsRun(TRUE)[128] = 191

-----------------------------------------------------------------------------
(* The source header of a search *)

\* C27: calling find_nonces and pulling from it, up to any point, leaves
\* the source header as it was, its nonce, stored hash and bits included;
\* the yielded headers are objects of their own: an assignment to the
\* source header leaves them as they were.
C27_SourceUnchanged ==
  [][ /\ call'.name \in {"find_nonces", "next"} => header' = header
      /\ (call'.name = "setattr" /\ gen.state # "none") =>
           gen'.yielded = gen.yielded ]_vars

\* a search over a header whose stored hash is not the hash of the yielded
\* header ran to its end, and the source header is as it was before the
\* last pull
C27_Witness ==
  /\ gen.state = "finished"
  /\ Len(gen.yielded) = 1
  /\ header[1].hash.t = "str"
  /\ gen.yielded[1].hash # header[1].hash
  /\ gen.yielded[1].nonce = header[1].nonce
  /\ call.name = "next"
  /\ call.pre = header
====
